---- MODULE Spec2Model ----
(***************************************************************************)
(* A model of ttf_to_epdfont.py: the interval resolver (sort, merge,       *)
(* validate), the glyph-generation loop with its bitmap packer, and the    *)
(* binary serializer write_epdfont.                                        *)
(*                                                                         *)
(*   SpecResolve  lines 220-240, one loop iteration per step               *)
(*   Spec         lines 244-335 and 362-420, entered with the interval     *)
(*                list the resolver computed                               *)
(*   SpecPack     lines 256-316, the packer applied to one bitmap          *)
(***************************************************************************)
EXTENDS Integers, Sequences, FiniteSets

VARIABLES
    pc,                   \* position in the program
    intervals,            \* candidate (start, end) list, line 58-215
    font_stack,           \* ordered faces; a face is the set of code points it maps
    unmerged_intervals,   \* line 221
    merged_intervals,     \* line 222
    validated_intervals,  \* line 230
    idx,                  \* index of the loop in progress (0-based, as in the code)
    code_point,           \* inner loop variable of the validation / generation scan
    start,                \* line 232
    is_2bit,              \* --2bit
    letter_spacing,       \* --letter-spacing
    width_scale,          \* --width-scale, as <<numerator, denominator>>
    all_glyphs,           \* line 246: sequence of [glyph, packed]
    total_size,           \* line 245
    offset,               \* line 398
    file,                 \* bytes written to the output file so far
    bitmap,               \* the bitmap handed to the packer (SpecPack)
    pixels                \* the packer's output (SpecPack)

vars == <<pc, intervals, font_stack, unmerged_intervals, merged_intervals,
          validated_intervals, idx, code_point, start, is_2bit, letter_spacing,
          width_scale, all_glyphs, total_size, offset, file, bitmap, pixels>>

(***************************************************************************)
(* Bounds of the model.                                                    *)
(***************************************************************************)
MaxCP == 3          \* code points are 0..MaxCP
MaxRanges == 2      \* candidate ranges in the list
MaxPixels == 9      \* width * height of a packed bitmap
MaxInk == 1         \* samples of a bitmap that differ from its background

CodePoints == 0 .. MaxCP

(***************************************************************************)
(* Integer helpers: Python's bit operators on non-negative integers.       *)
(***************************************************************************)
RECURSIVE BitAnd(_, _)
BitAnd(a, b) ==
    IF a = 0 \/ b = 0 THEN 0
    ELSE (IF a % 2 = 1 /\ b % 2 = 1 THEN 1 ELSE 0) + 2 * BitAnd(a \div 2, b \div 2)

RECURSIVE BitOr(_, _)
BitOr(a, b) ==
    IF a = 0 THEN b
    ELSE IF b = 0 THEN a
    ELSE (IF a % 2 = 1 \/ b % 2 = 1 THEN 1 ELSE 0) + 2 * BitOr(a \div 2, b \div 2)

RECURSIVE Pow2(_)
Pow2(n) == IF n = 0 THEN 1 ELSE 2 * Pow2(n - 1)

Shl(a, n) == a * Pow2(n)
Shr(a, n) == a \div Pow2(n)

Max(a, b) == IF a >= b THEN a ELSE b

(***************************************************************************)
(* Bitmap quantizer / packer, lines 256-316.                               *)
(* A bitmap is [width, rows, buffer]; buffer is the row-major sequence of  *)
(* 8-bit coverage samples.  Python indexes from 0, sequences here from 1.  *)
(***************************************************************************)

\* One iteration of the loop of lines 259-270; acc = [px, out].
Build4Step(acc, i, v, width) ==
    LET x    == IF width > 0 THEN i % width ELSE 0
        a1   == IF x % 2 = 0
                THEN [px |-> Shr(v, 4), out |-> acc.out]
                ELSE [px |-> 0,
                      out |-> Append(acc.out, BitOr(acc.px, BitAnd(v, 240)))]
    IN  IF width > 0 /\ x = width - 1 /\ width % 2 > 0
        THEN [px |-> 0, out |-> Append(a1.out, a1.px)]
        ELSE a1

RECURSIVE Build4From(_, _, _)
Build4From(acc, i, bm) ==
    IF i >= Len(bm.buffer) THEN acc.out
    ELSE Build4From(Build4Step(acc, i, bm.buffer[i + 1], bm.width), i + 1, bm)

\* pixels4g, lines 257-270
Build4(bm) == Build4From([px |-> 0, out |-> <<>>], 0, bm)

\* pitch, lines 276 and 300
Pitch(bm) == (bm.width \div 2) + (bm.width % 2)

\* Level2 reading the other nibble of the intermediate byte
Level2_OtherNibble(p4, pitch, x, y) ==
    IF pitch > 0 /\ Len(p4) > 0
    THEN LET i  == y * pitch + (x \div 2)
             b0 == IF i < Len(p4) THEN p4[i + 1] ELSE 0
             b  == BitAnd(Shr(b0, (1 - (x % 2)) * 4), 15)
         IN  IF b >= 12 THEN 3 ELSE IF b >= 8 THEN 2 ELSE IF b >= 4 THEN 1 ELSE 0
    ELSE 0

\* The 2-bit level of pixel (x, y), lines 280-288
Level2(p4, pitch, x, y) ==
    IF pitch > 0 /\ Len(p4) > 0
    THEN LET i  == y * pitch + (x \div 2)
             b0 == IF i < Len(p4) THEN p4[i + 1] ELSE 0
             b  == BitAnd(Shr(b0, (x % 2) * 4), 15)
         IN  IF b >= 12 THEN 3 ELSE IF b >= 8 THEN 2 ELSE IF b >= 4 THEN 1 ELSE 0
    ELSE 0

\* Level1 testing the whole low nibble (0xF) at even x
Level1_FullNibble(p4, pitch, x, y) ==
    IF pitch > 0 /\ Len(p4) > 0
    THEN LET i == y * pitch + (x \div 2)
             b == IF i < Len(p4) THEN p4[i + 1] ELSE 0
         IN  IF \/ (BitAnd(x, 1) = 0 /\ BitAnd(b, 15) > 0)
                \/ (BitAnd(x, 1) = 1 /\ BitAnd(b, 224) > 0)
             THEN 1 ELSE 0
    ELSE 0

\* The 1-bit value of pixel (x, y), lines 304-307
Level1(p4, pitch, x, y) ==
    IF pitch > 0 /\ Len(p4) > 0
    THEN LET i == y * pitch + (x \div 2)
             b == IF i < Len(p4) THEN p4[i + 1] ELSE 0
         IN  IF \/ (BitAnd(x, 1) = 0 /\ BitAnd(b, 14) > 0)
                \/ (BitAnd(x, 1) = 1 /\ BitAnd(b, 224) > 0)
             THEN 1 ELSE 0
    ELSE 0

\* The nested loops of lines 277-291, pixel k = y * width + x; acc = [px, out].
RECURSIVE Pack2From(_, _, _, _)
Pack2From(acc, k, bm, p4) ==
    IF k >= bm.width * bm.rows THEN acc
    ELSE LET y  == k \div bm.width
             x  == k % bm.width
             px == Shl(acc.px, 2) + Level2(p4, Pitch(bm), x, y)
         IN  Pack2From(IF (y * bm.width + x) % 4 = 3
                       THEN [px |-> 0, out |-> Append(acc.out, px)]
                       ELSE [px |-> px, out |-> acc.out],
                       k + 1, bm, p4)

\* pixels2b, lines 274-295
Pack2(bm) ==
    LET acc == Pack2From([px |-> 0, out |-> <<>>], 0, bm, Build4(bm))
        n   == bm.width * bm.rows
    IN  IF n % 4 # 0
        THEN Append(acc.out, Shl(acc.px, (4 - (n % 4)) * 2))
        ELSE acc.out

\* The nested loops of lines 301-310
RECURSIVE Pack1From(_, _, _, _)
Pack1From(acc, k, bm, p4) ==
    IF k >= bm.width * bm.rows THEN acc
    ELSE LET y  == k \div bm.width
             x  == k % bm.width
             px == Shl(acc.px, 1) + Level1(p4, Pitch(bm), x, y)
         IN  Pack1From(IF (y * bm.width + x) % 8 = 7
                       THEN [px |-> 0, out |-> Append(acc.out, px)]
                       ELSE [px |-> px, out |-> acc.out],
                       k + 1, bm, p4)

\* pixelsbw, lines 298-314
Pack1(bm) ==
    LET acc == Pack1From([px |-> 0, out |-> <<>>], 0, bm, Build4(bm))
        n   == bm.width * bm.rows
    IN  IF n % 8 # 0
        THEN Append(acc.out, Shl(acc.px, 8 - (n % 8)))
        ELSE acc.out

\* lines 272-316: the mode switch
PackBitmap(bm, twobit) == IF twobit THEN Pack2(bm) ELSE Pack1(bm)

(***************************************************************************)
(* Rasterization collaborator: load_glyph, lines 30-39.  A face is the set *)
(* of code points get_char_index maps to a glyph index > 0.  The result is *)
(* the position of the face in the stack, or None (0).                     *)
(***************************************************************************)
None == 0

RECURSIVE load_glyph_from(_, _, _)
load_glyph_from(fs, face_index, cp) ==
    IF face_index < Len(fs)
    THEN IF cp \in fs[face_index + 1]
         THEN face_index + 1
         ELSE load_glyph_from(fs, face_index + 1, cp)
    ELSE None

load_glyph(fs, cp) == load_glyph_from(fs, 0, cp)

(***************************************************************************)
(* Interval resolver, lines 220-240.                                       *)
(***************************************************************************)

\* Python's order on 2-tuples of integers
TupleLess(a, b) == a[1] < b[1] \/ (a[1] = b[1] /\ a[2] < b[2])

RECURSIVE InsertSorted(_, _)
InsertSorted(s, e) ==
    IF s = <<>> THEN <<e>>
    ELSE IF TupleLess(e, Head(s)) THEN <<e>> \o s
    ELSE <<Head(s)>> \o InsertSorted(Tail(s), e)

\* sorted(intervals), line 221
RECURSIVE sorted(_)
sorted(s) == IF s = <<>> THEN <<>> ELSE InsertSorted(sorted(Tail(s)), Head(s))

\* MergeStep comparing against the previous start instead of the previous end
MergeStep_PrevStart(merged, iv) ==
    LET n == Len(merged)
    IN  IF n > 0 /\ iv[1] <= merged[n][1] + 1
        THEN [merged EXCEPT ![n] = <<merged[n][1], Max(merged[n][2], iv[2])>>]
        ELSE Append(merged, iv)

\* One iteration of the merge loop, lines 223-227
MergeStep(merged, iv) ==
    LET n == Len(merged)
    IN  IF n > 0 /\ iv[1] <= merged[n][2] + 1
        THEN [merged EXCEPT ![n] = <<merged[n][1], Max(merged[n][2], iv[2])>>]
        ELSE Append(merged, iv)

RECURSIVE MergeFrom(_, _, _)
MergeFrom(merged, unmerged, i) ==
    IF i >= Len(unmerged) THEN merged
    ELSE MergeFrom(MergeStep(merged, unmerged[i + 1]), unmerged, i + 1)

\* lines 220-227
MergeIntervals(ivs) == MergeFrom(<<>>, sorted(ivs), 0)

\* ValidateStep closing the open sub-range at the unresolvable code point itself
ValidateStep_CloseAtGap(acc, cp, fs) ==
    IF load_glyph(fs, cp) = None
    THEN [start |-> cp + 1,
          out   |-> IF acc.start < cp
                    THEN Append(acc.out, <<acc.start, cp>>)
                    ELSE acc.out]
    ELSE acc

\* One iteration of the scan of lines 233-238; acc = [start, out]
ValidateStep(acc, cp, fs) ==
    IF load_glyph(fs, cp) = None
    THEN [start |-> cp + 1,
          out   |-> IF acc.start < cp
                    THEN Append(acc.out, <<acc.start, cp - 1>>)
                    ELSE acc.out]
    ELSE acc

\* ValidateClose with a strict comparison: a one-point tail is dropped
ValidateClose_Strict(acc, i_end) ==
    IF acc.start < i_end THEN Append(acc.out, <<acc.start, i_end>>) ELSE acc.out

\* lines 239-240
ValidateClose(acc, i_end) ==
    IF acc.start <= i_end THEN Append(acc.out, <<acc.start, i_end>>) ELSE acc.out

RECURSIVE ScanFrom(_, _, _, _)
ScanFrom(acc, cp, i_end, fs) ==
    IF cp > i_end THEN ValidateClose(acc, i_end)
    ELSE ScanFrom(ValidateStep(acc, cp, fs), cp + 1, i_end, fs)

RECURSIVE ValidateFrom(_, _, _, _)
ValidateFrom(out, merged, i, fs) ==
    IF i >= Len(merged) THEN out
    ELSE ValidateFrom(ScanFrom([start |-> merged[i + 1][1], out |-> out],
                               merged[i + 1][1], merged[i + 1][2], fs),
                      merged, i + 1, fs)

\* lines 229-240
ValidateIntervals(merged, fs) == ValidateFrom(<<>>, merged, 0, fs)

(***************************************************************************)
(* Inputs.                                                                 *)
(***************************************************************************)
RECURSIVE SeqsUpTo(_, _)
SeqsUpTo(S, n) ==
    IF n = 0 THEN {<<>>}
    ELSE LET R == SeqsUpTo(S, n - 1)
         IN  R \cup {Append(r, e) : r \in {q \in R : Len(q) = n - 1}, e \in S}

\* (start, end) pairs of the built-in list (lines 58-203) and of lines 211-215,
\* with start <= end as in every built-in pair
Pairs == {p \in CodePoints \X CodePoints : p[1] <= p[2]}

CandidateLists == SeqsUpTo(Pairs, MaxRanges)

\* One face, or a primary face without the requested code points and a fallback
FontStacks == {<<f>> : f \in SUBSET CodePoints} \cup {<<{}, f>> : f \in SUBSET CodePoints}

(***************************************************************************)
(* SpecResolve: lines 220-240, one loop iteration per step.                *)
(***************************************************************************)
ResolveIdle ==
    /\ is_2bit = FALSE /\ letter_spacing = 0 /\ width_scale = <<1, 1>>
    /\ all_glyphs = <<>> /\ total_size = 0 /\ offset = 0 /\ file = <<>>
    /\ bitmap = [width |-> 0, rows |-> 0, buffer |-> <<>>] /\ pixels = <<>>

InitResolve ==
    /\ pc = "sort"
    /\ intervals \in CandidateLists
    /\ font_stack \in FontStacks
    /\ unmerged_intervals = <<>>
    /\ merged_intervals = <<>>
    /\ validated_intervals = <<>>
    /\ idx = 0 /\ code_point = 0 /\ start = 0
    /\ ResolveIdle

genwrite == <<is_2bit, letter_spacing, width_scale, all_glyphs, total_size, offset,
              file, bitmap, pixels>>

\* lines 221-222
Sort ==
    /\ pc = "sort"
    /\ unmerged_intervals' = sorted(intervals)
    /\ merged_intervals' = <<>>
    /\ idx' = 0
    /\ pc' = "merge"
    /\ UNCHANGED <<intervals, font_stack, validated_intervals, code_point, start, genwrite>>

\* lines 223-227, one iteration
MergeNext ==
    /\ pc = "merge"
    /\ idx < Len(unmerged_intervals)
    /\ merged_intervals' = MergeStep(merged_intervals, unmerged_intervals[idx + 1])
    /\ idx' = idx + 1
    /\ UNCHANGED <<pc, intervals, font_stack, unmerged_intervals, validated_intervals,
                   code_point, start, genwrite>>

\* the merge loop ends; line 230
MergeDone ==
    /\ pc = "merge"
    /\ idx = Len(unmerged_intervals)
    /\ validated_intervals' = <<>>
    /\ idx' = 0
    /\ pc' = "validate"
    /\ UNCHANGED <<intervals, font_stack, unmerged_intervals, merged_intervals,
                   code_point, start, genwrite>>

\* lines 231-233: the next merged range is entered
RangeBegin ==
    /\ pc = "validate"
    /\ idx < Len(merged_intervals)
    /\ start' = merged_intervals[idx + 1][1]
    /\ code_point' = merged_intervals[idx + 1][1]
    /\ pc' = "scan"
    /\ UNCHANGED <<intervals, font_stack, unmerged_intervals, merged_intervals,
                   validated_intervals, idx, genwrite>>

\* lines 233-238, one code point
ScanPoint ==
    /\ pc = "scan"
    /\ code_point <= merged_intervals[idx + 1][2]
    /\ LET acc == ValidateStep([start |-> start, out |-> validated_intervals],
                               code_point, font_stack)
       IN  /\ start' = acc.start
           /\ validated_intervals' = acc.out
    /\ code_point' = code_point + 1
    /\ UNCHANGED <<pc, intervals, font_stack, unmerged_intervals, merged_intervals,
                   idx, genwrite>>

\* lines 239-240: the range is exhausted
RangeEnd ==
    /\ pc = "scan"
    /\ code_point > merged_intervals[idx + 1][2]
    /\ validated_intervals' = ValidateClose([start |-> start, out |-> validated_intervals],
                                            merged_intervals[idx + 1][2])
    /\ idx' = idx + 1
    /\ pc' = "validate"
    /\ UNCHANGED <<intervals, font_stack, unmerged_intervals, merged_intervals,
                   code_point, start, genwrite>>

\* line 242: the validation loop ends
ValidateDone ==
    /\ pc = "validate"
    /\ idx = Len(merged_intervals)
    /\ pc' = "validated"
    /\ UNCHANGED <<intervals, font_stack, unmerged_intervals, merged_intervals,
                   validated_intervals, idx, code_point, start, genwrite>>

NextResolve ==
    \/ Sort
    \/ MergeNext
    \/ MergeDone
    \/ RangeBegin
    \/ ScanPoint
    \/ RangeEnd
    \/ ValidateDone

SpecResolve == InitResolve /\ [][NextResolve]_vars

(***************************************************************************)
(* Properties of the interval resolver (SpecResolve).                      *)
(***************************************************************************)
WellFormedInput == \A i \in 1 .. Len(intervals) : intervals[i][1] <= intervals[i][2]

Resolvable(c) == \E f \in 1 .. Len(font_stack) : c \in font_stack[f]

CandidateUnion ==
    {c \in CodePoints : \E i \in 1 .. Len(intervals) :
                            intervals[i][1] <= c /\ c <= intervals[i][2]}

Covered(ivs) == {c \in CodePoints : \E i \in 1 .. Len(ivs) : ivs[i][1] <= c /\ c <= ivs[i][2]}

\* C1: when every candidate pair has start <= end, the merged list (at every
\* point of the merge loop and after it) is sorted ascending by start, every
\* entry has end >= start, and each entry starts after the previous entry's end.
C1_MergedSortedDisjoint ==
    WellFormedInput =>
        /\ \A i \in 1 .. Len(merged_intervals) :
               merged_intervals[i][2] >= merged_intervals[i][1]
        /\ \A i \in 1 .. Len(merged_intervals) - 1 :
               /\ merged_intervals[i][1] < merged_intervals[i + 1][1]
               /\ merged_intervals[i + 1][1] > merged_intervals[i][2]

\* C1 witness: two candidates given out of order that overlap or touch have
\* been merged into one range, whose end is the later candidate's end.
C1_Witness ==
    /\ pc = "validate"
    /\ WellFormedInput
    /\ Len(intervals) = 2
    /\ TupleLess(intervals[2], intervals[1])
    /\ intervals[1][1] <= intervals[2][2] + 1
    /\ intervals[1][2] > intervals[2][2]
    /\ Len(merged_intervals) = 1

\* C2: every validated interval emitted so far has end >= start and contains
\* only code points some face of the font stack resolves.
C2_ValidatedResolvable ==
    \A i \in 1 .. Len(validated_intervals) :
        /\ validated_intervals[i][2] >= validated_intervals[i][1]
        /\ \A c \in validated_intervals[i][1] .. validated_intervals[i][2] : Resolvable(c)

\* C2 witness: a merged range was split at an unresolvable code point.
C2_Witness ==
    /\ pc = "validated"
    /\ Len(merged_intervals) = 1
    /\ Len(validated_intervals) = 2
    /\ \E c \in merged_intervals[1][1] .. merged_intervals[1][2] : ~Resolvable(c)

\* C10: when validation has ended, the validated intervals cover exactly the
\* resolvable code points of the union of the candidate ranges, each has
\* start <= end, and each starts after the previous one's end (ascending and
\* pairwise disjoint, so a covered code point lies in exactly one interval).
C10_ValidatedComplete ==
    pc = "validated" =>
        /\ Covered(validated_intervals) = {c \in CandidateUnion : Resolvable(c)}
        /\ \A i \in 1 .. Len(validated_intervals) :
               validated_intervals[i][1] <= validated_intervals[i][2]
        /\ \A i \in 1 .. Len(validated_intervals) - 1 :
               validated_intervals[i + 1][1] > validated_intervals[i][2]

\* C10 witness: overlapping candidates, an unresolvable code point inside
\* their union, and resolvable code points on both sides of it kept.
C10_Witness ==
    /\ pc = "validated"
    /\ Len(intervals) = 2
    /\ Len(merged_intervals) = 1
    /\ Len(validated_intervals) = 2
    /\ validated_intervals[2][1] = validated_intervals[2][2]
    /\ \E c \in CandidateUnion : ~Resolvable(c)

(***************************************************************************)
(* SpecPack: the packer of lines 256-316 applied to one rendered bitmap.   *)
(***************************************************************************)
\* 8-bit coverage values on both sides of every threshold the packer applies
Samples == {0, 31, 32, 63, 64, 127, 128, 191, 192, 255}

Background == {0, 255}

Dims == {d \in (0 .. MaxPixels) \X (0 .. MaxPixels) : d[1] * d[2] <= MaxPixels}

\* A buffer of n samples: background bg with the samples at DOMAIN ink set to ink
Buffer(n, bg, ink) == [i \in 1 .. n |-> IF i \in DOMAIN ink THEN ink[i] ELSE bg]

\* The sets of at most MaxInk positions of a buffer of n samples
InkPositions(n) == {Q \in SUBSET (1 .. n) : Cardinality(Q) <= MaxInk}

InitPack ==
    /\ pc = "bitmap"
    \* face.glyph.bitmap, line 254: width, rows and a buffer of width * rows samples
    /\ \E d \in Dims, bg \in Background :
           \E P \in InkPositions(d[1] * d[2]) :
               \E ink \in [P -> Samples] :
                   bitmap = [width |-> d[1], rows |-> d[2],
                             buffer |-> Buffer(d[1] * d[2], bg, ink)]
    /\ is_2bit \in BOOLEAN
    /\ pixels = <<>>
    /\ intervals = <<>> /\ font_stack = <<>> /\ unmerged_intervals = <<>>
    /\ merged_intervals = <<>> /\ validated_intervals = <<>>
    /\ idx = 0 /\ code_point = 0 /\ start = 0
    /\ letter_spacing = 0 /\ width_scale = <<1, 1>>
    /\ all_glyphs = <<>> /\ total_size = 0 /\ offset = 0 /\ file = <<>>

\* lines 256-316
PackGlyph ==
    /\ pc = "bitmap"
    /\ pixels' = PackBitmap(bitmap, is_2bit)
    /\ pc' = "packed"
    /\ UNCHANGED <<intervals, font_stack, unmerged_intervals, merged_intervals,
                   validated_intervals, idx, code_point, start, is_2bit, letter_spacing,
                   width_scale, all_glyphs, total_size, offset, file, bitmap>>

NextPack == PackGlyph

SpecPack == InitPack /\ [][NextPack]_vars

(***************************************************************************)
(* Properties of the packer (SpecPack).                                    *)
(***************************************************************************)
\* The coverage sample of pixel (x, y); 0 beyond the last column
SampleAt(x, y) ==
    IF x < bitmap.width THEN bitmap.buffer[y * bitmap.width + x + 1] ELSE 0

\* The intermediate byte holding pixel (x, y), written out from the samples:
\* (sample[x even] >> 4) | (sample[x odd] & 0xF0)
NibblePair(x, y) ==
    (SampleAt(2 * (x \div 2), y) \div 16) + 16 * (SampleAt(2 * (x \div 2) + 1, y) \div 16)

\* Whether pixel (x, y) is on in 1-bit mode
ExpectedBit(x, y) ==
    IF \/ (x % 2 = 0 /\ (NibblePair(x, y) % 16) \div 2 # 0)
       \/ (x % 2 = 1 /\ NibblePair(x, y) \div 32 # 0)
    THEN 1 ELSE 0

\* The 2-bit level of pixel (x, y), from its own sample alone
ExpectedLevel(x, y) ==
    LET v == SampleAt(x, y) \div 16
    IN  IF v >= 12 THEN 3 ELSE IF v >= 8 THEN 2 ELSE IF v >= 4 THEN 1 ELSE 0

\* Bit k of a byte stream, MSB first
StreamBit(bytes, k) == (bytes[(k \div 8) + 1] \div Pow2(7 - (k % 8))) % 2

\* 2-bit field k of a byte stream, MSB first
StreamField(bytes, k) == (bytes[(k \div 4) + 1] \div Pow2(2 * (3 - (k % 4)))) % 4

Area == bitmap.width * bitmap.rows

\* C8: in 1-bit mode the packed output has ceil(w*h/8) bytes, bit y*w + x
\* (MSB first, rows not re-aligned) is the asymmetric even/odd test of the
\* intermediate byte of pixel (x, y), the padding bits of the last byte are 0,
\* a 4x2 bitmap of all-255 samples packs to 0xFF and a zero-area one to nothing.
C8_Pack1Bit ==
    (pc = "packed" /\ ~is_2bit) =>
        /\ Len(pixels) = (Area + 7) \div 8
        /\ \A i \in 1 .. Len(pixels) : pixels[i] \in 0 .. 255
        /\ \A k \in 0 .. Area - 1 :
               StreamBit(pixels, k) = ExpectedBit(k % bitmap.width, k \div bitmap.width)
        /\ \A k \in Area .. 8 * Len(pixels) - 1 : StreamBit(pixels, k) = 0
        /\ (bitmap.width = 4 /\ bitmap.rows = 2 /\ \A i \in 1 .. 8 : bitmap.buffer[i] = 255)
               => pixels = <<255>>
        /\ Area = 0 => pixels = <<>>

\* C8 witness: a 3x3 bitmap (two bytes, rows crossing the byte boundary, seven
\* padding bits) whose centre sample is the only one below the threshold.
C8_Witness ==
    /\ pc = "packed" /\ ~is_2bit
    /\ bitmap.width = 3 /\ bitmap.rows = 3
    /\ bitmap.buffer[5] = 31
    /\ \A i \in (1 .. 9) \ {5} : bitmap.buffer[i] = 255
    /\ pixels = <<247, 128>>

\* C9: in 2-bit mode the packed output has ceil(w*h/4) bytes, field y*w + x
\* (MSB first, four per byte, rows not padded) is the level of that pixel's own
\* 4-bit value (>= 12: 3, >= 8: 2, >= 4: 1, else 0), whatever the neighbour in
\* its intermediate byte is, and the unused fields of the last byte are 0.
C9_Pack2Bit ==
    (pc = "packed" /\ is_2bit) =>
        /\ Len(pixels) = (Area + 3) \div 4
        /\ \A i \in 1 .. Len(pixels) : pixels[i] \in 0 .. 255
        /\ \A k \in 0 .. Area - 1 :
               StreamField(pixels, k) = ExpectedLevel(k % bitmap.width, k \div bitmap.width)
        /\ \A k \in Area .. 4 * Len(pixels) - 1 : StreamField(pixels, k) = 0

\* C9 witness: a 3x2 bitmap of opaque samples with one sample of level 2 at an
\* odd column, packed into two bytes with two padding fields.
C9_Witness ==
    /\ pc = "packed" /\ is_2bit
    /\ bitmap.width = 3 /\ bitmap.rows = 2
    /\ bitmap.buffer[2] = 128
    /\ \A i \in (1 .. 6) \ {2} : bitmap.buffer[i] = 255
    /\ pixels = <<239, 240>>

(***************************************************************************)
(* Glyph generation, lines 244-335.                                        *)
(***************************************************************************)
\* int(x) of the rational n / d: truncation toward zero
Trunc(n, d) == IF n >= 0 THEN n \div d ELSE -((-n) \div d)

\* norm_floor, lines 24-25
norm_floor(val) == val \div 64

\* norm_ceil, lines 27-28
norm_ceil(val) == -((-val) \div 64)

\* baseline_offset, its default
baseline_offset == 0

\* What a face renders for a code point (FT_LOAD_RENDER, line 36): the bitmap,
\* advance.x in 26.6 fixed point, bitmap_left, bitmap_top.
Renderings ==
    { \* a space: no bitmap, advance 10 px
      [bitmap |-> [width |-> 0, rows |-> 0, buffer |-> <<>>],
       advance |-> 640, left |-> 0, top |-> 0],
      \* a combining mark: 3x3, advance 0, left of the origin
      [bitmap |-> [width |-> 3, rows |-> 3,
                   buffer |-> <<255, 128, 0, 31, 255, 32, 0, 192, 255>>],
       advance |-> 0, left |-> -2, top |-> 9],
      \* a wide glyph: 4x2, advance 256 px and 37/64
      [bitmap |-> [width |-> 4, rows |-> 2,
                   buffer |-> <<255, 255, 255, 255, 255, 255, 255, 255>>],
       advance |-> 16421, left |-> 1, top |-> 2] }

\* adjusted_advance_x, lines 318-319; ws is width_scale as <<numerator, denominator>>
AdjustedAdvance(r, ws, ls) == Trunc(norm_floor(r.advance) * ws[1], ws[2]) + ls

\* NewGlyph recording the offset after the glyph's own bytes
NewGlyph_OffsetAfter(r, packed, cp, total, ws, ls) ==
    [width       |-> r.bitmap.width,
     height      |-> r.bitmap.rows,
     advance_x   |-> AdjustedAdvance(r, ws, ls),
     left        |-> r.left,
     top         |-> r.top + baseline_offset,
     data_length |-> Len(packed),
     data_offset |-> total + Len(packed),
     code_point  |-> cp]

\* GlyphProps, lines 321-333
NewGlyph(r, packed, cp, total, ws, ls) ==
    [width       |-> r.bitmap.width,
     height      |-> r.bitmap.rows,
     advance_x   |-> AdjustedAdvance(r, ws, ls),
     left        |-> r.left,
     top         |-> r.top + baseline_offset,
     data_length |-> Len(packed),
     data_offset |-> total,
     code_point  |-> cp]

\* NextTotal assigning instead of accumulating
NextTotal_Assign(total, packed) == Len(packed)

\* line 334
NextTotal(total, packed) == total + Len(packed)

(***************************************************************************)
(* Binary serializer, lines 362-420.  struct.pack with '<' is little       *)
(* endian without padding; a value outside its format's range raises       *)
(* struct.error.                                                           *)
(***************************************************************************)
EPDFONT_MAGIC == 1178882117      \* 0x46445045
EPDFONT_VERSION == 1
header_size == 32

RECURSIVE LE(_, _)
LE(x, n) == IF n = 0 THEN <<>> ELSE <<x % 256>> \o LE(x \div 256, n - 1)

FitsB(x) == x \in 0 .. 255
FitsH(x) == x \in 0 .. 65535
Fitsh(x) == x \in -32768 .. 32767
\* 0 <= x < 2^32
FitsI(x) == x >= 0 /\ x \div 65536 <= 65535

PackB(x) == LE(x, 1)
PackH(x) == LE(x, 2)
Packh(x) == LE((x + 65536) % 65536, 2)
PackI(x) == LE(x, 4)

\* lines 379-394
PackHeader(twobit, advance_y, ascender, descender, n_intervals, n_glyphs) ==
    LET intervals_size   == n_intervals * 12
        glyphs_size      == n_glyphs * 16
        intervals_offset == header_size
        glyphs_offset    == intervals_offset + intervals_size
        bitmap_offset    == glyphs_offset + glyphs_size
    IN  PackI(EPDFONT_MAGIC) \o PackH(EPDFONT_VERSION)
        \o PackB(IF twobit THEN 1 ELSE 0) \o PackB(0)
        \o PackB(advance_y % 256) \o PackB(ascender % 256) \o PackB(descender % 256)
        \o PackB(0)
        \o PackI(n_intervals) \o PackI(n_glyphs)
        \o PackI(intervals_offset) \o PackI(glyphs_offset) \o PackI(bitmap_offset)

\* line 400
PackInterval(iv, off) == PackI(iv[1]) \o PackI(iv[2]) \o PackI(off)

\* NextOffset counting end - start
NextOffset_NoPlusOne(off, iv) == off + iv[2] - iv[1]

\* line 401
NextOffset(off, iv) == off + iv[2] - iv[1] + 1

\* Whether struct.pack('<4B2h2I', ...) of lines 405-415 accepts the record
GlyphFits(g) ==
    /\ FitsB(g.width) /\ FitsB(g.height) /\ FitsB(g.advance_x)
    /\ Fitsh(g.left) /\ Fitsh(g.top)
    /\ FitsI(g.data_length) /\ FitsI(g.data_offset)

\* lines 405-415
PackGlyphRecord(g) ==
    PackB(g.width) \o PackB(g.height) \o PackB(g.advance_x) \o PackB(0)
    \o Packh(g.left) \o Packh(g.top) \o PackI(g.data_length) \o PackI(g.data_offset)

\* bitmap_data, line 375
RECURSIVE JoinPacked(_, _)
JoinPacked(glyphs, i) ==
    IF i > Len(glyphs) THEN <<>> ELSE glyphs[i].packed \o JoinPacked(glyphs, i + 1)

\* line_height, its default 1.2
line_height == <<6, 5>>

\* face.size of the reference face (lines 338-346), in 26.6 fixed point
FaceMetrics == { [height |-> 1280, ascender |-> 1000, descender |-> -300] }

(***************************************************************************)
(* Spec: glyph generation and serialization, entered at line 244 with the  *)
(* validated intervals the resolver computes for a candidate list and a    *)
(* font stack.  The candidate and merged lists are not read after line 240.*)
(***************************************************************************)
LetterSpacings == {-1, 0}
WidthScales == {<<1, 1>>, <<1, 2>>}

Init ==
    /\ pc = "generate"
    /\ \E cands \in CandidateLists, fs \in FontStacks :
           /\ font_stack = fs
           /\ validated_intervals = ValidateIntervals(MergeIntervals(cands), fs)
    /\ intervals = <<>> /\ unmerged_intervals = <<>> /\ merged_intervals = <<>>
    /\ is_2bit \in BOOLEAN
    /\ letter_spacing \in LetterSpacings
    /\ width_scale \in WidthScales
    /\ all_glyphs = <<>>
    /\ total_size = 0
    /\ idx = 0 /\ code_point = 0 /\ start = 0
    /\ offset = 0 /\ file = <<>>
    /\ bitmap = [width |-> 0, rows |-> 0, buffer |-> <<>>] /\ pixels = <<>>

inputs == <<intervals, font_stack, unmerged_intervals, merged_intervals,
            validated_intervals, start, is_2bit, letter_spacing, width_scale,
            bitmap, pixels>>

\* lines 248-249: the next validated interval is entered
GenBegin ==
    /\ pc = "generate"
    /\ idx < Len(validated_intervals)
    /\ code_point' = validated_intervals[idx + 1][1]
    /\ pc' = "glyph"
    /\ UNCHANGED <<inputs, idx, all_glyphs, total_size, offset, file>>

\* lines 249-335, one code point
GenGlyph ==
    /\ pc = "glyph"
    /\ code_point <= validated_intervals[idx + 1][2]
    /\ IF load_glyph(font_stack, code_point) = None
       THEN UNCHANGED <<all_glyphs, total_size>>
       ELSE \E r \in Renderings :
                LET packed == PackBitmap(r.bitmap, is_2bit)
                    glyph  == NewGlyph(r, packed, code_point, total_size,
                                       width_scale, letter_spacing)
                IN  /\ total_size' = NextTotal(total_size, packed)
                    /\ all_glyphs' = Append(all_glyphs, [glyph |-> glyph, packed |-> packed])
    /\ code_point' = code_point + 1
    /\ UNCHANGED <<inputs, pc, idx, offset, file>>

\* the inner loop of line 249 ends
GenEnd ==
    /\ pc = "glyph"
    /\ code_point > validated_intervals[idx + 1][2]
    /\ idx' = idx + 1
    /\ pc' = "generate"
    /\ UNCHANGED <<inputs, code_point, all_glyphs, total_size, offset, file>>

\* lines 337-358 and 365-398: font metrics, then write_epdfont writes the header
WriteHeader ==
    /\ pc = "generate"
    /\ idx = Len(validated_intervals)
    /\ \E m \in FaceMetrics :
           LET original_advance_y == norm_ceil(m.height)
               advance_y          == Trunc(original_advance_y * line_height[1], line_height[2])
               ascender           == norm_ceil(m.ascender)
               descender          == norm_floor(m.descender)
           IN  file' = PackHeader(is_2bit, advance_y, ascender, descender,
                                  Len(validated_intervals), Len(all_glyphs))
    /\ offset' = 0
    /\ idx' = 0
    /\ pc' = "intervals"
    /\ UNCHANGED <<inputs, code_point, all_glyphs, total_size>>

\* lines 399-401, one interval
WriteInterval ==
    /\ pc = "intervals"
    /\ idx < Len(validated_intervals)
    /\ file' = file \o PackInterval(validated_intervals[idx + 1], offset)
    /\ offset' = NextOffset(offset, validated_intervals[idx + 1])
    /\ idx' = idx + 1
    /\ UNCHANGED <<inputs, pc, code_point, all_glyphs, total_size>>

\* the loop of line 399 ends
WriteIntervalsDone ==
    /\ pc = "intervals"
    /\ idx = Len(validated_intervals)
    /\ idx' = 0
    /\ pc' = "glyphs"
    /\ UNCHANGED <<inputs, code_point, all_glyphs, total_size, offset, file>>

\* lines 404-415, one glyph record; struct.error leaves write_epdfont
WriteGlyph ==
    /\ pc = "glyphs"
    /\ idx < Len(all_glyphs)
    /\ IF GlyphFits(all_glyphs[idx + 1].glyph)
       THEN /\ file' = file \o PackGlyphRecord(all_glyphs[idx + 1].glyph)
            /\ idx' = idx + 1
            /\ pc' = pc
       ELSE /\ pc' = "error"
            /\ UNCHANGED <<file, idx>>
    /\ UNCHANGED <<inputs, code_point, all_glyphs, total_size, offset>>

\* lines 417-420
WriteBitmap ==
    /\ pc = "glyphs"
    /\ idx = Len(all_glyphs)
    /\ file' = file \o JoinPacked(all_glyphs, 1)
    /\ pc' = "done"
    /\ UNCHANGED <<inputs, idx, code_point, all_glyphs, total_size, offset>>

Next ==
    \/ GenBegin
    \/ GenGlyph
    \/ GenEnd
    \/ WriteHeader
    \/ WriteInterval
    \/ WriteIntervalsDone
    \/ WriteGlyph
    \/ WriteBitmap

Spec == Init /\ [][Next]_vars

(***************************************************************************)
(* Properties of glyph generation and serialization (Spec).                *)
(***************************************************************************)
NumGlyphs == Len(all_glyphs)

DataOffset(i) == all_glyphs[i].glyph.data_offset
DataLength(i) == all_glyphs[i].glyph.data_length

RECURSIVE SumDataLength(_, _)
SumDataLength(i, j) == IF i > j THEN 0 ELSE DataLength(i) + SumDataLength(i + 1, j)

\* The unsigned 32-bit little-endian value at byte offset pos (from 0) of the file
U32At(pos) ==
    file[pos + 1] + 256 * file[pos + 2] + 65536 * file[pos + 3] + 16777216 * file[pos + 4]

HeaderWritten == pc \in {"intervals", "glyphs", "done", "error"}
Returned == pc \in {"done", "error"}

\* Interval entries and glyph records in the file so far
IntervalsWritten ==
    IF pc = "intervals" THEN idx
    ELSE IF pc \in {"glyphs", "done", "error"} THEN Len(validated_intervals)
    ELSE 0

GlyphsWritten ==
    IF pc \in {"glyphs", "error"} THEN idx
    ELSE IF pc = "done" THEN NumGlyphs
    ELSE 0

RECURSIVE CountBefore(_)
CountBefore(i) ==
    IF i <= 1 THEN 0
    ELSE CountBefore(i - 1) + (validated_intervals[i - 1][2] - validated_intervals[i - 1][1] + 1)

\* C3: after any number of appended glyphs the first dataOffset is 0, the
\* dataOffset sequence is non-decreasing, dataOffset[i] + dataLength[i] =
\* dataOffset[i+1], and total_size is the sum of the dataLength so far.
C3_OffsetsRunningSum ==
    /\ NumGlyphs >= 1 => DataOffset(1) = 0
    /\ \A i \in 1 .. NumGlyphs - 1 :
           /\ DataOffset(i) <= DataOffset(i + 1)
           /\ DataOffset(i) + DataLength(i) = DataOffset(i + 1)
    /\ total_size = SumDataLength(1, NumGlyphs)

\* C3 witness: three glyphs appended, the first two of different non-zero lengths.
C3_Witness ==
    /\ NumGlyphs = 3
    /\ DataLength(1) > 0 /\ DataLength(2) > DataLength(1)
    /\ DataOffset(3) = DataLength(1) + DataLength(2)
    /\ total_size > DataOffset(3)

\* C4 as stated: no two glyphs share a dataOffset, and dataOffset increases
\* strictly in glyph-table order.
C4_OffsetsUnique ==
    \A i, j \in 1 .. NumGlyphs : i < j => DataOffset(i) < DataOffset(j)

\* C4 amended: dataOffset is non-decreasing in glyph-table order, and two
\* glyphs share a dataOffset exactly when every glyph from the earlier one up
\* to (not including) the later one has dataLength 0.
C4_OffsetsSharedOnlyAcrossEmpty ==
    \A i, j \in 1 .. NumGlyphs :
        i < j =>
            /\ DataOffset(i) <= DataOffset(j)
            /\ (DataOffset(i) = DataOffset(j)) <=> (\A k \in i .. j - 1 : DataLength(k) = 0)

\* C4 witness: a zero-area glyph shares its dataOffset with the glyph after
\* it, and the glyph after that one lies further on.
C4_Witness ==
    /\ NumGlyphs = 3
    /\ all_glyphs[1].glyph.width = 0 /\ DataLength(1) = 0
    /\ DataOffset(1) = DataOffset(2)
    /\ DataOffset(2) < DataOffset(3)

\* C5 as stated: write_epdfont never raises, and the advanceX byte of every
\* glyph record in the file is the adjusted advance modulo 256.
C5_AdvanceWraps ==
    /\ pc # "error"
    /\ \A i \in 1 .. GlyphsWritten :
           file[header_size + 12 * Len(validated_intervals) + 16 * (i - 1) + 3]
               = all_glyphs[i].glyph.advance_x % 256

\* What the code does instead: a record is written only when its advance is in
\* 0..255, and then holds the advance itself; write_epdfont ends in
\* struct.error exactly at a glyph whose advance is outside 0..255.
C5_AdvanceStoredOrRaised ==
    /\ \A i \in 1 .. GlyphsWritten :
           /\ all_glyphs[i].glyph.advance_x \in 0 .. 255
           /\ file[header_size + 12 * Len(validated_intervals) + 16 * (i - 1) + 3]
                  = all_glyphs[i].glyph.advance_x
    /\ pc = "error" => all_glyphs[idx + 1].glyph.advance_x \notin 0 .. 255
    /\ pc = "done" => \A i \in 1 .. NumGlyphs : all_glyphs[i].glyph.advance_x \in 0 .. 255

\* C6: the glyphIndexOffset written for interval i is the number of glyph
\* records of the intervals before it; the record at glyphIndexOffset +
\* (c - start) is the one generated for code point c; glyphCount is the sum of
\* end - start + 1; and the records are in ascending code-point order.
C6_GlyphIndexOffsets ==
    /\ \A i \in 1 .. IntervalsWritten :
           LET at     == header_size + 12 * (i - 1)
               iv     == validated_intervals[i]
               gindex == U32At(at + 8)
           IN  /\ U32At(at) = iv[1] /\ U32At(at + 4) = iv[2]
               /\ gindex = CountBefore(i)
               /\ gindex = Cardinality({g \in 1 .. NumGlyphs :
                              \E j \in 1 .. i - 1 :
                                  /\ validated_intervals[j][1] <= all_glyphs[g].glyph.code_point
                                  /\ all_glyphs[g].glyph.code_point <= validated_intervals[j][2]})
               /\ \A c \in iv[1] .. iv[2] :
                      /\ gindex + (c - iv[1]) + 1 \in 1 .. NumGlyphs
                      /\ all_glyphs[gindex + (c - iv[1]) + 1].glyph.code_point = c
    /\ HeaderWritten =>
           /\ U32At(16) = CountBefore(Len(validated_intervals) + 1)
           /\ U32At(16) = NumGlyphs
           /\ \A g \in 1 .. NumGlyphs - 1 :
                  all_glyphs[g].glyph.code_point < all_glyphs[g + 1].glyph.code_point

\* C6 witness: the table holds two intervals, the second behind a first of two
\* code points, so its glyphIndexOffset is 2.
C6_Witness ==
    /\ pc = "done"
    /\ Len(validated_intervals) = 2
    /\ validated_intervals[1][2] = validated_intervals[1][1] + 1
    /\ U32At(header_size + 12 + 8) = 2
    /\ NumGlyphs = 3

\* The header fields and table positions C7 names
HeaderLayout ==
    LET n == Len(validated_intervals)
        g == NumGlyphs
    IN  /\ U32At(12) = n /\ U32At(16) = g
        /\ U32At(20) = 32
        /\ U32At(24) = 32 + 12 * n
        /\ U32At(28) = 32 + 12 * n + 16 * g

\* C7 as stated: whenever write_epdfont has ended, the file is the 32-byte
\* header with the counts and offsets of the claim, 12*n interval bytes, 16*g
\* glyph bytes and the bitmap blob: its length is bitmapOffset plus the sum of
\* dataLength, and each table starts at the offset the header records.
C7_FileLayout ==
    Returned =>
        /\ HeaderLayout
        /\ Len(file) = U32At(28) + SumDataLength(1, NumGlyphs)
        /\ \A i \in 1 .. Len(validated_intervals) :
               U32At(U32At(20) + 12 * (i - 1)) = validated_intervals[i][1]
        /\ \A i \in 1 .. NumGlyphs :
               U32At(U32At(24) + 16 * (i - 1) + 12) = DataOffset(i)
        /\ \A i \in 1 .. NumGlyphs : \A b \in 1 .. DataLength(i) :
               file[U32At(28) + DataOffset(i) + b] = all_glyphs[i].packed[b]

\* The same layout, for the runs of write_epdfont that reach line 420
C7_FileLayoutWhenComplete ==
    /\ HeaderWritten => HeaderLayout /\ Len(file) >= 32
    /\ pc = "done" => C7_FileLayout

====
